---- MODULE Spec2Model ----
(***************************************************************************)
(* Model of src/src/main.rs: calculate_balance_changes and the MultiSend   *)
(* pipeline (validate_inout, process_input, process_output), the solvency  *)
(* walk over the delta map and from_hashmap.                               *)
(*                                                                         *)
(* Amounts are i128 in the source and rust_decimal's Decimal has a 96 bit  *)
(* mantissa with 28 decimal digits; the model covers amounts far inside    *)
(* both ranges, where Decimal::from_i128, to_i128 and saturating_mul are   *)
(* exact and checked_div loses no digit that ceil() could see.  A Decimal  *)
(* is modelled as an exact fraction <<numerator, denominator>>.            *)
(***************************************************************************)
EXTENDS Integers, Sequences, FiniteSets, TLC

VARIABLES original_balances, definitions, inputs, outputs,
          changes, di, pc, result

vars == <<original_balances, definitions, inputs, outputs, changes, di, pc, result>>

(***************************************************************************)
(* Bounds of the model.                                                    *)
(***************************************************************************)
MaxAmount == 2

MaxBalance == 4

(***************************************************************************)
(* Data model: Coin, Balance, DenomDefinition (main.rs 132-204).           *)
(***************************************************************************)
Coin(d, a) == [denom |-> d, amount |-> a]

Balance(addr, cs) == [address |-> addr, coins |-> cs]

DenomDefinition(d, i, b, c) ==
    [denom |-> d, issuer |-> i, burn_rate |-> b, commission_rate |-> c]

(* a lookup that takes the first coin, whatever its denom *)
find_coin_any_denom(coins, denom) == IF coins = <<>> THEN 0 ELSE 1

(* Vec<Coin>::find_coin: the index of the first coin of the denom, 0 for None *)
find_coin(coins, denom) ==
    IF \E i \in 1..Len(coins) : coins[i].denom = denom
    THEN CHOOSE i \in 1..Len(coins) :
            /\ coins[i].denom = denom
            /\ \A j \in 1..(i - 1) : coins[j].denom # denom
    ELSE 0

(* Vec<Balance>::get_coin_sum *)
RECURSIVE get_coin_sum(_, _)
get_coin_sum(balances, denom) ==
    IF balances = <<>> THEN 0
    ELSE LET balance == Head(balances)
             k == find_coin(balance.coins, denom)
         IN  (IF k = 0 THEN 0 ELSE balance.coins[k].amount)
             + get_coin_sum(Tail(balances), denom)

(* Vec<Balance>::get_filtered_coin_sum *)
RECURSIVE get_filtered_coin_sum(_, _)
get_filtered_coin_sum(balances, skip_denom) ==
    IF balances = <<>> THEN 0
    ELSE LET balance == Head(balances)
             k == IF skip_denom.issuer = balance.address
                  THEN 0
                  ELSE find_coin(balance.coins, skip_denom.denom)
         IN  (IF k = 0 THEN 0 ELSE balance.coins[k].amount)
             + get_filtered_coin_sum(Tail(balances), skip_denom)

(***************************************************************************)
(* rust_decimal operations used by process_input, on exact fractions.      *)
(***************************************************************************)
(* Decimal::from_f64 of a rate written as the fraction <<n, d>> *)
DecimalFromF64(rate) == [num |-> rate[1], den |-> rate[2]]

(* Decimal::from_i128 *)
DecimalFromI128(x) == [num |-> x, den |-> 1]

(* Decimal::saturating_mul *)
DecimalMul(x, y) == [num |-> x.num * y.num, den |-> x.den * y.den]

(* Decimal::checked_div: an Option, None for a zero divisor *)
DecimalCheckedDiv(x, y) ==
    IF y.num = 0 THEN [some |-> FALSE, value |-> x]
    ELSE IF y.num > 0
    THEN [some |-> TRUE, value |-> [num |-> x.num * y.den, den |-> x.den * y.num]]
    ELSE [some |-> TRUE,
          value |-> [num |-> (0 - x.num) * y.den, den |-> x.den * (0 - y.num)]]

(* rounding towards zero where the source rounds up *)
DecimalTruncToI128(x) == x.num \div x.den

(* Decimal::ceil followed by to_i128 *)
DecimalCeilToI128(x) == 0 - ((0 - x.num) \div x.den)

(***************************************************************************)
(* The delta map HashMap<(String, String), i128>: a function whose domain  *)
(* is the set of keys present.                                             *)
(***************************************************************************)
(* *map.entry(key).or_insert(0) += x *)
EntryAdd(map, key, x) ==
    IF key \in DOMAIN map
    THEN [map EXCEPT ![key] = @ + x]
    ELSE (key :> x) @@ map

EmptyMap == [k \in {} |-> 0]

(***************************************************************************)
(* MultiSend::validate_inout (main.rs 33-42).                              *)
(***************************************************************************)
validate_inout_lenient(ins, outs, definition) ==
    get_coin_sum(ins, definition.denom) <= get_coin_sum(outs, definition.denom)

validate_inout(ins, outs, definition) ==
    get_coin_sum(ins, definition.denom) = get_coin_sum(outs, definition.denom)

(***************************************************************************)
(* MultiSend::process_input (main.rs 44-101).                              *)
(***************************************************************************)
(* lines 52-56: the larger of the two non-issuer sums *)
Denominate(ins, outs, definition) ==
    LET non_issuer_input_sum == get_filtered_coin_sum(ins, definition)
        non_issuer_output_sum == get_filtered_coin_sum(outs, definition)
    IN  IF non_issuer_input_sum > non_issuer_output_sum
        THEN non_issuer_input_sum
        ELSE non_issuer_output_sum

(* lines 52-56: the smaller of the two non-issuer sums *)
Numerate(ins, outs, definition) ==
    LET non_issuer_input_sum == get_filtered_coin_sum(ins, definition)
        non_issuer_output_sum == get_filtered_coin_sum(outs, definition)
    IN  IF non_issuer_input_sum > non_issuer_output_sum
        THEN non_issuer_output_sum
        ELSE non_issuer_input_sum

(* lines 65-84 and 89-93: amount * rate, scaled by numerate / denominate  *)
(* when the two differ, then ceil().to_i128(); an Option that is None     *)
(* when checked_div fails ("Calculation failure")                         *)
FeeShare(amount, rate, numerate, denominate) ==
    LET fee == DecimalMul(DecimalFromI128(amount), DecimalFromF64(rate))
        scaled == IF denominate # numerate
                  THEN DecimalCheckedDiv(
                           DecimalMul(fee, DecimalFromI128(numerate)),
                           DecimalFromI128(denominate))
                  ELSE [some |-> TRUE, value |-> fee]
    IN  [some |-> scaled.some, value |-> DecimalCeilToI128(scaled.value)]

(* the loop body with the burn left out of the sender's deduction *)
ProcessInputEntryNoBurn(map, input, definition, numerate, denominate) ==
    LET k == find_coin(input.coins, definition.denom)
    IN  IF k = 0 THEN [ok |-> TRUE, map |-> map]
        ELSE
        LET coin == input.coins[k]
            commission == FeeShare(coin.amount, definition.commission_rate,
                                   numerate, denominate)
        IN  [ok |-> commission.some,
             map |-> EntryAdd(
                         EntryAdd(map, <<input.address, definition.denom>>,
                                  0 - (commission.value + coin.amount)),
                         <<definition.issuer, definition.denom>>, commission.value)]

(* the loop body with the commission credited to the sender's own key *)
ProcessInputEntryNoCredit(map, input, definition, numerate, denominate) ==
    LET k == find_coin(input.coins, definition.denom)
    IN  IF k = 0 THEN [ok |-> TRUE, map |-> map]
        ELSE
        LET coin == input.coins[k]
            burnt == FeeShare(coin.amount, definition.burn_rate, numerate, denominate)
            commission == FeeShare(coin.amount, definition.commission_rate,
                                   numerate, denominate)
        IN  [ok |-> burnt.some /\ commission.some,
             map |-> EntryAdd(
                         EntryAdd(map, <<input.address, definition.denom>>,
                                  0 - (burnt.value + commission.value + coin.amount)),
                         <<input.address, definition.denom>>, commission.value)]

(* lines 64-97: the body of the loop for one input Balance *)
ProcessInputEntry(map, input, definition, numerate, denominate) ==
    LET k == find_coin(input.coins, definition.denom)
    IN  IF k = 0 THEN [ok |-> TRUE, map |-> map]
        ELSE
        LET coin == input.coins[k]
            burnt == FeeShare(coin.amount, definition.burn_rate, numerate, denominate)
            commission == FeeShare(coin.amount, definition.commission_rate,
                                   numerate, denominate)
            input_key == <<input.address, definition.denom>>
            output_key == <<definition.issuer, definition.denom>>
        IN  IF ~burnt.some \/ ~commission.some
            THEN [ok |-> FALSE, map |-> map]
            ELSE [ok |-> TRUE,
                  map |-> EntryAdd(
                              EntryAdd(map, input_key,
                                       0 - (burnt.value + commission.value
                                            + coin.amount)),
                              output_key, commission.value)]

(* lines 63-98: the loop over self.inputs, stopping at the first error *)
RECURSIVE ProcessInputLoop(_, _, _, _, _)
ProcessInputLoop(map, ins, definition, numerate, denominate) ==
    IF ins = <<>> THEN [ok |-> TRUE, map |-> map]
    ELSE LET r == ProcessInputEntry(map, Head(ins), definition, numerate, denominate)
         IN  IF r.ok
             THEN ProcessInputLoop(r.map, Tail(ins), definition, numerate, denominate)
             ELSE r

process_input(map, ins, outs, definition) ==
    ProcessInputLoop(map, ins, definition,
                     Numerate(ins, outs, definition),
                     Denominate(ins, outs, definition))

(***************************************************************************)
(* MultiSend::process_output (main.rs 103-115).                            *)
(***************************************************************************)
ProcessOutputEntry(map, output, definition) ==
    LET k == find_coin(output.coins, definition.denom)
    IN  IF k = 0 THEN map
        ELSE EntryAdd(map, <<output.address, output.coins[k].denom>>,
                      output.coins[k].amount)

RECURSIVE process_output(_, _, _)
process_output(map, outs, definition) ==
    IF outs = <<>> THEN map
    ELSE process_output(ProcessOutputEntry(map, Head(outs), definition),
                        Tail(outs), definition)

(***************************************************************************)
(* MultiSend::process (main.rs 117-129) as one function: the delta map it  *)
(* leaves and the error it returns, "" for Ok(()).                         *)
(***************************************************************************)
RECURSIVE process(_, _, _, _)
process(map, ins, outs, defs) ==
    IF defs = <<>> THEN [err |-> "", map |-> map]
    ELSE LET definition == Head(defs)
         IN  IF ~validate_inout(ins, outs, definition)
             THEN [err |-> "Input and output mismatch", map |-> map]
             ELSE LET r == process_input(map, ins, outs, definition)
                  IN  IF ~r.ok
                      THEN [err |-> "Calculation failure", map |-> r.map]
                      ELSE process(process_output(r.map, outs, definition),
                                   ins, outs, Tail(defs))

(***************************************************************************)
(* to_hashmap (main.rs 206-215): collect() inserts the pairs in order, so  *)
(* a later pair with the same key replaces an earlier one.                 *)
(***************************************************************************)
RECURSIVE CoinsToMap(_, _, _)
CoinsToMap(map, address, coins) ==
    IF coins = <<>> THEN map
    ELSE LET key == <<address, Head(coins).denom>>
             put == IF key \in DOMAIN map
                    THEN [map EXCEPT ![key] = Head(coins).amount]
                    ELSE (key :> Head(coins).amount) @@ map
         IN  CoinsToMap(put, address, Tail(coins))

RECURSIVE ToHashmapFrom(_, _)
ToHashmapFrom(map, vec) ==
    IF vec = <<>> THEN map
    ELSE ToHashmapFrom(CoinsToMap(map, Head(vec).address, Head(vec).coins), Tail(vec))

to_hashmap(vec) == ToHashmapFrom(EmptyMap, vec)

(***************************************************************************)
(* The solvency walk of calculate_balance_changes (main.rs 280-289).       *)
(***************************************************************************)
InsufficientOrEqual(map, original_balances_map, key) ==
    /\ ~(map[key] >= 0)
    /\ \/ key \notin DOMAIN original_balances_map
       \/ original_balances_map[key] <= 0 - map[key]

Insufficient(map, original_balances_map, key) ==
    /\ ~(map[key] >= 0)
    /\ \/ key \notin DOMAIN original_balances_map
       \/ original_balances_map[key] < 0 - map[key]

Solvent(map, original) ==
    LET original_balances_map == to_hashmap(original)
    IN  \A key \in DOMAIN map : ~Insufficient(map, original_balances_map, key)

(***************************************************************************)
(* from_hashmap (main.rs 217-237).  The HashMap hands out its entries in   *)
(* an arbitrary order: keyOrder is the order in which the delta map is     *)
(* walked, a sequence holding every key once.                              *)
(***************************************************************************)
(* lines 225-233: entry(address).or_insert_with(..), then coins.push *)
PushCoin(balances, address, coin) ==
    IF \E i \in 1..Len(balances) : balances[i].address = address
    THEN [i \in 1..Len(balances) |->
            IF balances[i].address = address
            THEN [balances[i] EXCEPT !.coins = Append(@, coin)]
            ELSE balances[i]]
    ELSE Append(balances, Balance(address, <<coin>>))

(* the walk without the skip of zero amounts *)
RECURSIVE FromHashmapLoopKeepZero(_, _, _)
FromHashmapLoopKeepZero(balances, map, keyOrder) ==
    IF keyOrder = <<>> THEN balances
    ELSE LET key == Head(keyOrder)
         IN  FromHashmapLoopKeepZero(
                 PushCoin(balances, key[1], Coin(key[2], map[key])), map, Tail(keyOrder))

RECURSIVE FromHashmapLoop(_, _, _)
FromHashmapLoop(balances, map, keyOrder) ==
    IF keyOrder = <<>> THEN balances
    ELSE LET key == Head(keyOrder)
         IN  IF map[key] = 0
             THEN FromHashmapLoop(balances, map, Tail(keyOrder))
             ELSE FromHashmapLoop(PushCoin(balances, key[1], Coin(key[2], map[key])),
                                  map, Tail(keyOrder))

from_hashmap(map, keyOrder) == FromHashmapLoop(<<>>, map, keyOrder)

(* the orders in which a HashMap with these keys is walked in the model:  *)
(* one enumeration of the keys and its reverse                            *)
RECURSIVE SetToSeq(_)
SetToSeq(S) ==
    IF S = {} THEN <<>>
    ELSE LET x == CHOOSE y \in S : TRUE
         IN  <<x>> \o SetToSeq(S \ {x})

Reverse(s) == [i \in 1..Len(s) |-> s[Len(s) + 1 - i]]

KeyOrders(map) == {SetToSeq(DOMAIN map), Reverse(SetToSeq(DOMAIN map))}

(***************************************************************************)
(* Result<Vec<Balance>, String> of calculate_balance_changes.              *)
(***************************************************************************)
Pending == [kind |-> "pending", msg |-> "", balances |-> <<>>]

Err(msg) == [kind |-> "err", msg |-> msg, balances |-> <<>>]

Ok(balances) == [kind |-> "ok", msg |-> "", balances |-> balances]

(***************************************************************************)
(* The arguments the model draws.                                          *)
(***************************************************************************)
Issuer == "issuer_account_A"

Addresses == {"account1", "account2", Issuer}

(* burn_rate and commission_rate, as fractions: 0.5/0.5, 0.0/0.5, 1.0/0.0 *)
RatePairs == {<<<<1, 2>>, <<1, 2>>>>, <<<<0, 1>>, <<1, 2>>>>, <<<<1, 1>>, <<0, 1>>>>}

(* a Balance of a transaction: one address with one coin of denom1 *)
TxBalances ==
    {Balance(a, <<Coin("denom1", x)>>) : a \in Addresses, x \in 1..MaxAmount}

(* the inputs and the outputs of a transaction: up to two Balances *)
BalanceLists(E) ==
    {<<>>} \cup {<<a>> : a \in E} \cup {<<a, b>> : a \in E, b \in E}

(* original_balances: nobody holds anything, or every address holds the  *)
(* same amount of every denom in play                                     *)
Holdings(ds, level) ==
    LET as == SetToSeq(Addresses)
    IN  [i \in 1..Len(as) |->
            Balance(as[i], [j \in 1..Len(ds) |-> Coin(ds[j], level)])]

OriginalChoices(ds) == {<<>>} \cup {Holdings(ds, level) : level \in 0..MaxBalance}

(***************************************************************************)
(* State machine: calculate_balance_changes, one action per function it    *)
(* runs.  di is the position of MultiSend::process in definitions.         *)
(***************************************************************************)
Start(defs) == IF defs = <<>> THEN "solvency" ELSE "validate_inout"

Init ==
    /\ definitions \in {<<DenomDefinition("denom1", Issuer, rp[1], rp[2])>> :
                            rp \in RatePairs}
    /\ inputs \in BalanceLists(TxBalances)
    /\ outputs \in BalanceLists(TxBalances)
    /\ original_balances \in OriginalChoices(<<"denom1">>)
    /\ changes = EmptyMap
    /\ di = 1
    /\ pc = Start(definitions)
    /\ result = Pending

(* main.rs 123: self.validate_inout(definition)? *)
ValidateInout ==
    /\ pc = "validate_inout"
    /\ IF validate_inout(inputs, outputs, definitions[di])
       THEN /\ pc' = "process_input"
            /\ result' = result
       ELSE /\ pc' = "done"
            /\ result' = Err("Input and output mismatch")
    /\ UNCHANGED <<original_balances, definitions, inputs, outputs, changes, di>>

(* main.rs 124: self.process_input(definition, changes)? *)
ProcessInput ==
    /\ pc = "process_input"
    /\ LET r == process_input(changes, inputs, outputs, definitions[di])
       IN  /\ changes' = r.map
           /\ IF r.ok
              THEN /\ pc' = "process_output"
                   /\ result' = result
              ELSE /\ pc' = "done"
                   /\ result' = Err("Calculation failure")
    /\ UNCHANGED <<original_balances, definitions, inputs, outputs, di>>

(* main.rs 125: self.process_output(definition, changes), then the next   *)
(* definition of the loop at 122, or the return at 128                    *)
ProcessOutput ==
    /\ pc = "process_output"
    /\ changes' = process_output(changes, outputs, definitions[di])
    /\ di' = di + 1
    /\ pc' = IF di < Len(definitions) THEN "validate_inout" ELSE "solvency"
    /\ UNCHANGED <<original_balances, definitions, inputs, outputs, result>>

(* main.rs 278-289: to_hashmap and the walk over balances_changes_map *)
CheckSolvency ==
    /\ pc = "solvency"
    /\ IF Solvent(changes, original_balances)
       THEN /\ pc' = "from_hashmap"
            /\ result' = result
       ELSE /\ pc' = "done"
            /\ result' = Err("Insufficient balance")
    /\ UNCHANGED <<original_balances, definitions, inputs, outputs, changes, di>>

(* main.rs 291-293: from_hashmap and Ok(balances_changes) *)
FromHashmap ==
    /\ pc = "from_hashmap"
    /\ \E keyOrder \in KeyOrders(changes) :
          result' = Ok(from_hashmap(changes, keyOrder))
    /\ pc' = "done"
    /\ UNCHANGED <<original_balances, definitions, inputs, outputs, changes, di>>

Next ==
    \/ ValidateInout
    \/ ProcessInput
    \/ ProcessOutput
    \/ CheckSolvency
    \/ FromHashmap

Spec == Init /\ [][Next]_vars

(***************************************************************************)
(* A second specification: two denoms.  denom1 is always defined; denom2   *)
(* (issued by account2) is defined after it, or not at all.  Transactions  *)
(* carry up to two input Balances and one output Balance, each with a      *)
(* coin of denom1, a coin of denom2, or both.                              *)
(***************************************************************************)
Definition1 == DenomDefinition("denom1", Issuer, <<1, 2>>, <<1, 2>>)

Definition2 == DenomDefinition("denom2", "account2", <<1, 2>>, <<0, 1>>)

TxCoinsTwo ==
    {<<Coin("denom1", 1)>>}
        \cup {<<Coin("denom2", x)>> : x \in 1..MaxAmount}
        \cup {<<Coin("denom1", 1), Coin("denom2", x)>> : x \in 1..MaxAmount}

TxBalancesTwo == {Balance(a, cs) : a \in Addresses, cs \in TxCoinsTwo}

InitTwo ==
    /\ definitions \in {<<>>, <<Definition1>>, <<Definition1, Definition2>>}
    /\ inputs \in BalanceLists(TxBalancesTwo)
    /\ outputs \in {<<>>} \cup {<<a>> : a \in TxBalancesTwo}
    /\ original_balances \in OriginalChoices(<<"denom1", "denom2">>)
    /\ changes = EmptyMap
    /\ di = 1
    /\ pc = Start(definitions)
    /\ result = Pending

SpecTwo == InitTwo /\ [][Next]_vars

(***************************************************************************)
(* Vocabulary of the properties, written from the transaction itself.      *)
(***************************************************************************)
(* the amount a Balance carries in a denom: its first coin of that denom *)
AmountIn(balance, denom) ==
    LET at == {i \in DOMAIN balance.coins : balance.coins[i].denom = denom}
    IN  IF at = {} THEN 0
        ELSE balance.coins[CHOOSE i \in at : \A j \in at : i <= j].amount

(* the sum of term[i] over i in 1..n *)
SumTo(term, n) ==
    LET s[i \in 0..n] == IF i = 0 THEN 0 ELSE s[i - 1] + term[i]
    IN  s[n]

(* total amount of denom over the Balances of a list whose address is in who *)
TotalOf(balances, denom, who) ==
    SumTo([i \in DOMAIN balances |->
              IF balances[i].address \in who
              THEN AmountIn(balances[i], denom) ELSE 0],
          Len(balances))

Everyone == Addresses

DefinedDenoms == {definitions[i].denom : i \in DOMAIN definitions}

Mismatched(d) == TotalOf(inputs, d, Everyone) # TotalOf(outputs, d, Everyone)

(* the original balance of (address, denom), 0 when there is none *)
Original(address, denom) ==
    LET at == {i \in DOMAIN original_balances :
                  /\ original_balances[i].address = address
                  /\ \E j \in DOMAIN original_balances[i].coins :
                        original_balances[i].coins[j].denom = denom}
    IN  IF at = {} THEN 0
        ELSE AmountIn(original_balances[CHOOSE i \in at : TRUE], denom)

(* the delta of (address, denom) in the delta map, 0 for an absent key *)
Delta(address, denom) ==
    IF <<address, denom>> \in DOMAIN changes THEN changes[<<address, denom>>] ELSE 0

(***************************************************************************)
(* C1: a transaction in which some defined denom has total input different *)
(* from total output never reaches the solvency check, and it ends         *)
(* rejected with the input/output mismatch error and no deltas, whatever   *)
(* the rates and the original balances are.                                *)
(***************************************************************************)
C1_MismatchRejected ==
    (\E d \in DefinedDenoms : Mismatched(d)) =>
        /\ pc \notin {"solvency", "from_hashmap"}
        /\ result.kind # "ok"
        /\ pc = "done" => result = Err("Input and output mismatch")

(* a mismatch in the second definition, found after the first definition  *)
(* was processed in full, with a sender that holds less than it sends     *)
C1_Witness ==
    /\ pc = "done"
    /\ result = Err("Input and output mismatch")
    /\ di = 2
    /\ \E i \in DOMAIN inputs : \E d \in DefinedDenoms :
          AmountIn(inputs[i], d) > Original(inputs[i].address, d)

(***************************************************************************)
(* C2: when every defined denom conserves, the call is rejected with the   *)
(* insufficient-balance error exactly when the final delta map holds a     *)
(* key with a negative delta whose original balance (0 when absent) is     *)
(* smaller than the magnitude of the delta; so in an accepted result the   *)
(* magnitude of every negative delta is at most the original balance.      *)
(***************************************************************************)
AllConserve == \A d \in DefinedDenoms : ~Mismatched(d)

Overdrawn(key) ==
    /\ changes[key] < 0
    /\ Original(key[1], key[2]) < 0 - changes[key]

NonIssuers(def) == Addresses \ {def.issuer}

NIn(def) == TotalOf(inputs, def.denom, NonIssuers(def))

NOut(def) == TotalOf(outputs, def.denom, NonIssuers(def))

Smaller(def) == IF NIn(def) <= NOut(def) THEN NIn(def) ELSE NOut(def)

Larger(def) == IF NIn(def) <= NOut(def) THEN NOut(def) ELSE NIn(def)

(* the least integer that is at least n / d, for n >= 0 and d > 0 *)
CeilFrac(n, d) == CHOOSE m \in 0..n : m * d >= n /\ (m - 1) * d < n

(* ceil(a * rate * num / den) *)
Share(a, rate, num, den) == CeilFrac(a * rate[1] * num, rate[2] * den)

(* the sum over the input Balances from an address of who of what[i] *)
SumInputs(who, what) ==
    SumTo([i \in DOMAIN inputs |-> IF inputs[i].address \in who THEN what[i] ELSE 0],
          Len(inputs))

(* what the specification deducts for input i of a definition whose       *)
(* shares are scaled by num / den: principal, burn share, commission share *)
Deduction(i, def, num, den) ==
    LET a == AmountIn(inputs[i], def.denom)
    IN  a + Share(a, def.burn_rate, num, den) + Share(a, def.commission_rate, num, den)

(* process_input has just run for definitions[di] *)
InputsDone == pc = "process_output"

(***************************************************************************)
(* C3: an input of the issuer of a denom is charged no burn and no         *)
(* commission: after the inputs of a definition are processed, the delta   *)
(* of its issuer is the commission shares of the other senders minus the   *)
(* principal of the issuer's own inputs.                                   *)
(***************************************************************************)
C3_IssuerInputsExempt ==
    InputsDone =>
        LET def == definitions[di]
            commissionOfOthers ==
                IF Larger(def) = 0 THEN 0
                ELSE SumInputs(NonIssuers(def),
                               [i \in DOMAIN inputs |->
                                   Share(AmountIn(inputs[i], def.denom),
                                         def.commission_rate, Smaller(def), Larger(def))])
        IN  Delta(def.issuer, def.denom) =
                commissionOfOthers - TotalOf(inputs, def.denom, {def.issuer})

BurnCharged(i, def) ==
    IF find_coin(inputs[i].coins, def.denom) = 0 THEN 0
    ELSE FeeShare(AmountIn(inputs[i], def.denom), def.burn_rate,
                  Numerate(inputs, outputs, def), Denominate(inputs, outputs, def)).value

CommissionCharged(i, def) ==
    IF find_coin(inputs[i].coins, def.denom) = 0 THEN 0
    ELSE FeeShare(AmountIn(inputs[i], def.denom), def.commission_rate,
                  Numerate(inputs, outputs, def), Denominate(inputs, outputs, def)).value

TotalBurn(def) ==
    SumInputs(Everyone, [i \in DOMAIN inputs |-> BurnCharged(i, def)])

(* the sum of the deltas of a denom over all addresses *)
DeltaSum(denom) ==
    LET as == SetToSeq(Addresses)
    IN  SumTo([i \in DOMAIN as |-> Delta(as[i], denom)], Len(as))

Accepted == pc \in {"from_hashmap", "done"} /\ result.kind # "err"

CommissionOfSenders(def) ==
    IF Larger(def) = 0 THEN 0
    ELSE SumInputs(NonIssuers(def),
                   [i \in DOMAIN inputs |->
                       Share(AmountIn(inputs[i], def.denom), def.commission_rate,
                             Smaller(def), Larger(def))])

IssuerAbsent(def) ==
    /\ \A i \in DOMAIN inputs :
          inputs[i].address = def.issuer => find_coin(inputs[i].coins, def.denom) = 0
    /\ \A i \in DOMAIN outputs :
          outputs[i].address = def.issuer => find_coin(outputs[i].coins, def.denom) = 0

C6_CommissionConservation ==
    /\ InputsDone =>
          LET def == definitions[di]
          IN  Delta(def.issuer, def.denom) =
                  CommissionOfSenders(def)
                  - SumInputs({def.issuer},
                              [i \in DOMAIN inputs |->
                                  AmountIn(inputs[i], def.denom) + BurnCharged(i, def)])
    /\ Accepted =>
          \A k \in DOMAIN definitions :
              IssuerAbsent(definitions[k]) =>
                  Delta(definitions[k].issuer, definitions[k].denom) =
                      CommissionOfSenders(definitions[k])

(* an accepted transaction of two senders whose commission shares, each   *)
(* rounded up, reach an issuer that takes no part in the transfer         *)
C6_Witness ==
    /\ pc = "done"
    /\ result.kind = "ok"
    /\ LET def == definitions[1]
       IN  /\ IssuerAbsent(def)
           /\ Cardinality({inputs[i].address : i \in DOMAIN inputs}) = 2
           /\ Delta(def.issuer, def.denom) = 2
           /\ TotalOf(inputs, def.denom, Everyone) * def.commission_rate[1]
                 < 2 * def.commission_rate[2]

(***************************************************************************)
(* C7: a sender whose original balance does not cover its input amounts    *)
(* plus its burn and commission shares in a defined denom makes the call   *)
(* fail, also when it is among the outputs of that denom.                  *)
(***************************************************************************)
Required(A, def) ==
    IF A = def.issuer \/ Larger(def) = 0
    THEN TotalOf(inputs, def.denom, {A})
    ELSE SumInputs({A}, [i \in DOMAIN inputs |->
                           Deduction(i, def, Smaller(def), Larger(def))])

C7_UncoveredSenderRejected ==
    pc = "done" =>
        \A k \in DOMAIN definitions : \A A \in Addresses :
            Original(A, definitions[k].denom) < Required(A, definitions[k])
                => result.kind = "err"

(***************************************************************************)
(* C8: the returned sequence holds exactly the non-zero entries of the     *)
(* final delta map: every (address, denom) with a non-zero delta once,     *)
(* with that delta; no coin of amount 0; every address in at most one      *)
(* Balance; and no Balance for an address whose deltas are all 0.          *)
(***************************************************************************)
Returned == result.balances

(* the places of the returned sequence that hold a coin of (address, denom) *)
PlacesOf(address, denom) ==
    {<<i, j>> \in (DOMAIN Returned) \X (1..Cardinality(DOMAIN changes)) :
        /\ j \in DOMAIN Returned[i].coins
        /\ Returned[i].address = address
        /\ Returned[i].coins[j].denom = denom}

C8_ResultIsNonZeroDeltas ==
    result.kind = "ok" =>
        /\ \A key \in DOMAIN changes :
              IF changes[key] = 0
              THEN PlacesOf(key[1], key[2]) = {}
              ELSE /\ Cardinality(PlacesOf(key[1], key[2])) = 1
                   /\ \A p \in PlacesOf(key[1], key[2]) :
                         Returned[p[1]].coins[p[2]].amount = changes[key]
        /\ \A i \in DOMAIN Returned :
              /\ Returned[i].coins # <<>>
              /\ Len(Returned[i].coins) <= Cardinality(DOMAIN changes)
              /\ \A j \in DOMAIN Returned[i].coins :
                    /\ Returned[i].coins[j].amount # 0
                    /\ <<Returned[i].address, Returned[i].coins[j].denom>>
                          \in DOMAIN changes
        /\ \A i, j \in DOMAIN Returned :
              Returned[i].address = Returned[j].address => i = j

(* a result in which one address carries two coins, while the issuer's    *)
(* key and a self-paying sender's key are left out with a delta of 0      *)
C8_Witness ==
    /\ result.kind = "ok"
    /\ \E i \in DOMAIN Returned : Len(Returned[i].coins) = 2
    /\ \E a \in Addresses :
          /\ \E d \in DefinedDenoms : <<a, d>> \in DOMAIN changes
          /\ \A d \in DefinedDenoms : Delta(a, d) = 0
          /\ \A i \in DOMAIN Returned : Returned[i].address # a

(***************************************************************************)
(* C9: when NIn <= NOut the scaling factor is 1: every input of amount a   *)
(* from an address other than the issuer pays ceil(a * b) and ceil(a * c); *)
(* shares are scaled down, by NOut / NIn, only when NIn > NOut.            *)
(***************************************************************************)
C9_FullFeesWhenInputsSmaller ==
    InputsDone =>
        LET def == definitions[di]
        IN  /\ NIn(def) <= NOut(def) =>
                  \A A \in NonIssuers(def) :
                      Delta(A, def.denom) =
                          0 - SumInputs({A}, [i \in DOMAIN inputs |->
                                                 Deduction(i, def, 1, 1)])
            /\ NIn(def) > NOut(def) =>
                  \A A \in NonIssuers(def) :
                      Delta(A, def.denom) =
                          0 - SumInputs({A}, [i \in DOMAIN inputs |->
                                                 Deduction(i, def, NOut(def), NIn(def))])

(***************************************************************************)
(* C10: when min(NIn, NOut) = 0 no input of the denom is charged a burn or *)
(* a commission: every delta of the denom is what the address received     *)
(* minus what it sent, and the issuer is credited no commission.           *)
(***************************************************************************)
C10_NoFeesWithoutMatchedPortion ==
    (pc \in {"solvency", "from_hashmap", "done"} /\ result.kind # "err" /\ AllConserve) =>
        \A k \in DOMAIN definitions :
            LET def == definitions[k]
            IN  Smaller(def) = 0 =>
                \A A \in Addresses :
                    Delta(A, def.denom) =
                        TotalOf(outputs, def.denom, {A}) - TotalOf(inputs, def.denom, {A})

(***************************************************************************)
(* C11: a denom of the transaction that has no definition is skipped: no   *)
(* conservation check is made for it, no key of the delta map carries it,  *)
(* no solvency check involves it, and the deltas of the defined denoms are *)
(* those of the transaction with the coins of undefined denoms removed.    *)
(***************************************************************************)
(* the denoms of the coins a list of Balances carries *)
CoinDenoms(balances) ==
    UNION {{balances[i].coins[j].denom : j \in DOMAIN balances[i].coins} :
              i \in DOMAIN balances}

TxDenoms == CoinDenoms(inputs) \cup CoinDenoms(outputs)

UndefinedDenoms == TxDenoms \ DefinedDenoms

IsDefined(coin) == coin.denom \in DefinedDenoms

(* the Balances of a list, each without its coins of undefined denoms *)
WithoutUndefined(balances) ==
    [i \in DOMAIN balances |->
        Balance(balances[i].address, SelectSeq(balances[i].coins, IsDefined))]

ProcessReturned == pc \in {"solvency", "from_hashmap"} \/ pc = "done"

C11_UndefinedDenomsSkipped ==
    /\ result = Err("Input and output mismatch") =>
          \E d \in DefinedDenoms : Mismatched(d)
    /\ \A key \in DOMAIN changes : key[2] \notin UndefinedDenoms
    /\ result = Err("Insufficient balance") =>
          \E key \in DOMAIN changes :
              key[2] \in DefinedDenoms /\ Overdrawn(key)
    /\ ProcessReturned =>
          LET r == process(EmptyMap, WithoutUndefined(inputs),
                           WithoutUndefined(outputs), definitions)
          IN  /\ r.map = changes
              /\ r.err = (IF result.kind = "err" /\ result.msg # "Insufficient balance"
                          THEN result.msg ELSE "")

(* an accepted transaction with deltas in the defined denom, whose coins  *)
(* of an undefined denom do not conserve and exceed what the sender holds *)
C11_Witness ==
    /\ pc = "done"
    /\ result.kind = "ok"
    /\ changes # EmptyMap
    /\ \E u \in UndefinedDenoms :
          /\ Mismatched(u)
          /\ \E i \in DOMAIN inputs :
                /\ AmountIn(inputs[i], u) > Original(inputs[i].address, u)
                /\ \E d \in DefinedDenoms : AmountIn(inputs[i], d) > 0

====
